---------------------------- MODULE Spec2Model ----------------------------
(***************************************************************************)
(* fastmat: Product (src/unnamed/part_000, fastmat/Product.pyx) and        *)
(* DiagBlocks (src/fastmat/DiagBlocks.pyx).                                *)
(*                                                                         *)
(* Array elements are Gaussian integers <<re, im>>; array arithmetic is    *)
(* exact.  The scalar coefficient of a Product keeps its numpy element     *)
(* type, and 8 and 16 bit integers wrap as numpy's do.  Arrays are         *)
(* 0-based, as in the source.                                              *)
(***************************************************************************)
EXTENDS Integers, Sequences, FiniteSets, TLC

(***************************************************************************)
(* Bounds of the model.                                                    *)
(***************************************************************************)
\* most arguments of one Product(...) call
MaxArgs == 3
\* most leaf terms (scalars and matrices) a Product is written from
MaxWritten == 3
\* seeds of the coefficient tensors given to DiagBlocks(...)
MaxSeed == 1
\* most columns of an input batch
MaxCols == 2
\* largest block count / block size of a DiagBlocks tensor
MaxDim == 2

\* the callers that share one Product
MaxThreads == 2

\* the elements of its tensor a caller overwrites after construction
MaxWrites == 1

(***************************************************************************)
(* Complex (Gaussian integer) arithmetic.                                  *)
(***************************************************************************)
CZero == <<0, 0>>

COne == <<1, 0>>

CAdd(a, b) == <<a[1] + b[1], a[2] + b[2]>>

CMul(a, b) == <<a[1] * b[1] - a[2] * b[2], a[1] * b[2] + a[2] * b[1]>>

\* helpers.cmath._conjugate / ndarray.conj / scalar.conjugate, elementwise
CConj(a) == <<a[1], 0 - a[2]>>

RECURSIVE CSum(_, _)
\* sum of f[0] .. f[n-1]
CSum(f, n) == IF n = 0 THEN CZero ELSE CAdd(CSum(f, n - 1), f[n - 1])

(***************************************************************************)
(* numpy arrays: 2-D [n, k, at] and 3-D [d, at], and failed calls [err].   *)
(***************************************************************************)
Arr(n, k, F(_, _)) ==
    [n |-> n, k |-> k, at |-> [i \in 0..(n - 1) |-> [j \in 0..(k - 1) |-> F(i, j)]]]

Arr3(d0, d1, d2, F(_, _, _)) ==
    [d |-> <<d0, d1, d2>>,
     at |-> [a \in 0..(d0 - 1) |-> [b \in 0..(d1 - 1) |-> [c \in 0..(d2 - 1) |-> F(a, b, c)]]]]

Raise(name) == [err |-> name]

IsErr(v) == "err" \in DOMAIN v

\* ndarray.dot of two 2-D arrays
Dot(A, B) ==
    IF IsErr(A) THEN A
    ELSE IF IsErr(B) THEN B
    ELSE IF A.k # B.n THEN Raise("ValueError: shapes not aligned")
    ELSE Arr(A.n, B.k, LAMBDA i, j :
             CSum([m \in 0..(A.k - 1) |-> CMul(A.at[i][m], B.at[m][j])], A.k))

\* np.inner(array, scalar): every element times the scalar
Scale(A, s) ==
    IF IsErr(A) THEN A ELSE Arr(A.n, A.k, LAMBDA i, j : CMul(A.at[i][j], s))

\* conjugate transpose of a 2-D array
Herm(A) == Arr(A.k, A.n, LAMBDA i, j : CConj(A.at[j][i]))

Eye(n) == Arr(n, n, LAMBDA i, j : IF i = j THEN COne ELSE CZero)

\* column j of a 2-D array, as a vector
Column(A, j) == IF IsErr(A) THEN A ELSE Arr(A.n, 1, LAMBDA i, c : A.at[i][j])

\* row i of a 2-D array, as a vector
Row(A, i) == IF IsErr(A) THEN A ELSE Arr(A.k, 1, LAMBDA r, c : A.at[i][r])

\* _conjugate(arr): the element-wise complex conjugate
conjugate(A) == IF IsErr(A) THEN A ELSE Arr(A.n, A.k, LAMBDA i, j : CConj(A.at[i][j]))

\* the unit vector e_idx of n elements
Unit(n, idx) == Arr(n, 1, LAMBDA i, c : IF i = idx THEN COne ELSE CZero)

\* <a, b> = sum over all elements of conj(a) * b
InnerProd(A, B) ==
    CSum([c \in 0..(A.n * A.k - 1) |->
             CMul(CConj(A.at[c \div A.k][c % A.k]), B.at[c \div A.k][c % A.k])],
         A.n * A.k)

(***************************************************************************)
(* numpy element types.                                                    *)
(***************************************************************************)
DTypes == {"int8", "int16", "int32", "int64",
           "float32", "float64", "complex64", "complex128"}

IsIntType(dt) == dt \in {"int8", "int16", "int32", "int64"}

IsComplexType(dt) == dt \in {"complex64", "complex128"}

IntBits(dt) ==
    CASE dt = "int8" -> 8 [] dt = "int16" -> 16 [] dt = "int32" -> 32 [] OTHER -> 64

\* 1: single precision suffices, 2: double precision is needed
FloatLevel(dt) ==
    IF dt \in {"int8", "int16", "float32", "complex64"} THEN 1 ELSE 2

\* np.promote_types
promote_types(a, b) ==
    IF IsIntType(a) /\ IsIntType(b)
    THEN (IF IntBits(a) >= IntBits(b) THEN a ELSE b)
    ELSE LET lvl == IF FloatLevel(a) >= FloatLevel(b) THEN FloatLevel(a) ELSE FloatLevel(b)
         IN  IF IsComplexType(a) \/ IsComplexType(b)
             THEN (IF lvl = 1 THEN "complex64" ELSE "complex128")
             ELSE (IF lvl = 1 THEN "float32" ELSE "float64")

\* two's complement wrap of v to w bits (w = 8 or 16)
WrapBits(v, w) ==
    LET half == IF w = 8 THEN 128 ELSE 32768
    IN  ((v + half) % (2 * half)) - half

\* the value v as an element of type dt; the model's values stay far below
\* 2^31, so only the 8 and 16 bit integers can wrap
AsType(v, dt) ==
    IF dt \in {"int8", "int16"} THEN <<WrapBits(v[1], IntBits(dt)), 0>> ELSE v


(***************************************************************************)
(* numpy reshape / einsum / slice assignment, as DiagBlocks uses them.     *)
(***************************************************************************)
\* arrX.reshape((-1, d1, arrX.shape[1]), order='F') of a 2-D array
ReshapeF3(X, d1) ==
    IF X.n % d1 # 0 THEN Raise("ValueError: cannot reshape array")
    ELSE LET d0 == X.n \div d1
         IN  Arr3(d0, d1, X.k, LAMBDA z, m, k : X.at[z + d0 * m][k])

\* arr.reshape((-1, arr.shape[2]), order='F') of a 3-D array
ReshapeF2(Y) ==
    IF IsErr(Y) THEN Y
    ELSE Arr(Y.d[1] * Y.d[2], Y.d[3], LAMBDA r, k : Y.at[r % Y.d[1]][r \div Y.d[1]][k])

\* the common length of one einsum label: equal lengths, or one of them 1
\* (einsum broadcasts a dimension of length 1); 0 when they do not fit
LabelDim(a, b) == IF a = b THEN a ELSE IF a = 1 THEN b ELSE IF b = 1 THEN a ELSE 0

\* index into a dimension of length d that may be broadcast
Bx(i, d) == IF d = 1 THEN 0 ELSE i

\* np.einsum(subs + ',zmk -> znk', T, Y) for subs = 'nmz' or 'mnz'
Einsum(subs, T, Y) ==
    IF IsErr(Y) THEN Y
    ELSE LET dn == IF subs = "nmz" THEN T.d[1] ELSE T.d[2]
             dmT == IF subs = "nmz" THEN T.d[2] ELSE T.d[1]
             dm == LabelDim(dmT, Y.d[2])
             dz == LabelDim(T.d[3], Y.d[1])
             TAt(n, m, z) == IF subs = "nmz"
                             THEN T.at[n][Bx(m, dmT)][Bx(z, T.d[3])]
                             ELSE T.at[Bx(m, dmT)][n][Bx(z, T.d[3])]
         IN  IF dm = 0 \/ dz = 0
             THEN Raise("ValueError: operands could not be broadcast together")
             ELSE Arr3(dz, dn, Y.d[3], LAMBDA z, n, k :
                      CSum([m \in 0..(dm - 1) |->
                               CMul(TAt(n, m, z), Y.at[Bx(z, Y.d[1])][Bx(m, Y.d[2])][k])],
                           dm))

\* arrRes[:] = V for arrRes of numRows rows: V fits, or its one row is broadcast
AssignAll(numRows, V) ==
    IF IsErr(V) THEN V
    ELSE IF V.n = numRows THEN V
    ELSE IF V.n = 1 THEN Arr(numRows, V.k, LAMBDA i, j : V.at[0][j])
    ELSE Raise("ValueError: could not broadcast input array")

\* ndarray.conj() of a 3-D array
Conj3(T) == Arr3(T.d[1], T.d[2], T.d[3], LAMBDA a, b, c : CConj(T.at[a][b][c]))

(***************************************************************************)
(* class DiagBlocks                                                        *)
(***************************************************************************)
\* self._tenDiags = tenDiags: the operator keeps the caller's storage
afterCallerWrite_aliased(self, tensor) ==
    [self EXCEPT !._tenDiags = [d |-> tensor.d, at |-> tensor.at]]

\* self._tenDiags = np.copy(tenDiags): the operator self after the caller
\* has written to its own array, which now holds tensor
afterCallerWrite(self, tensor) == self

\* DiagBlocks.__init__(tenDiags)
DiagBlocks_init(tenDiags) ==
    [kind |-> "DiagBlocks",
     _numDiagsN |-> tenDiags.d[1],
     _numDiagsM |-> tenDiags.d[2],
     _numDiagsSize |-> tenDiags.d[3],
     numN |-> tenDiags.d[1] * tenDiags.d[3],
     numM |-> tenDiags.d[2] * tenDiags.d[3],
     _tenDiags |-> [d |-> tenDiags.d, at |-> tenDiags.at],
     dtype |-> tenDiags.dtype]

\* _forwardC with the subscripts of _backwardC
DiagBlocks_forwardC_swapped(self, arrX) ==
    AssignAll(self.numN,
              ReshapeF2(Einsum("mnz", self._tenDiags, ReshapeF3(arrX, self._numDiagsM))))

\* DiagBlocks._forwardC(arrX, arrRes): the value assigned to arrRes[:]
DiagBlocks_forwardC(self, arrX) ==
    AssignAll(self.numN,
              ReshapeF2(Einsum("nmz", self._tenDiags, ReshapeF3(arrX, self._numDiagsM))))

\* DiagBlocks._backwardC(arrX, arrRes): the value assigned to arrRes[:]
DiagBlocks_backwardC(self, arrX) ==
    AssignAll(self.numM,
              ReshapeF2(Einsum("mnz", Conj3(self._tenDiags), ReshapeF3(arrX, self._numDiagsM))))

\* DiagBlocks._reference()
DiagBlocks_reference(self) ==
    LET S == self._numDiagsSize
    IN  Arr(self.numN, self.numM, LAMBDA i, j :
            IF i % S = j % S
            THEN self._tenDiags.at[i \div S][j \div S][i % S]
            ELSE CZero)

(***************************************************************************)
(* class Matrix: the calls every operator inherits.  forward and backward  *)
(* check the input's row count and hand the input to the operator's own    *)
(* transform; reference() returns the operator's dense matrix.             *)
(***************************************************************************)
Matrix_forward(self, arrX) ==
    IF IsErr(arrX) THEN arrX
    ELSE IF arrX.n # self.numM THEN Raise("ValueError: dimension mismatch")
    ELSE DiagBlocks_forwardC(self, arrX)

Matrix_backward(self, arrX) ==
    IF IsErr(arrX) THEN arrX
    ELSE IF arrX.n # self.numN THEN Raise("ValueError: dimension mismatch")
    ELSE DiagBlocks_backwardC(self, arrX)

Matrix_reference(self) == DiagBlocks_reference(self)

\* getCol(idx) of a factor: the column idx of the factor's matrix
Matrix_getCol(self, idx) == Column(Matrix_reference(self), idx)

\* getRow(idx) of a factor: the row idx of the factor's matrix
Matrix_getRow(self, idx) == Row(Matrix_reference(self), idx)

(***************************************************************************)
(* class Product: construction                                             *)
(***************************************************************************)
NoObj == [kind |-> "none"]

NoExc == [exc |-> "none"]

\* Python's None, and a Python list, as the value of an attribute
None == [isList |-> FALSE, items |-> <<>>]

List(items) == [isList |-> TRUE, items |-> items]

\* a numpy scalar of element type dt
NpScalar(dt, v) == [kind |-> "scalar", dtype |-> dt, val |-> AsType(v, dt)]

\* np.isscalar(factor)
isscalar(factor) == factor.kind = "scalar"

\* isinstance(factor, Matrix)
isMatrix(factor) == factor.kind \in {"DiagBlocks", "Product"}

\* np.inner of two scalars: the product, in the promoted element type
inner(a, b) ==
    LET dt == promote_types(a.dtype, b.dtype)
    IN  NpScalar(dt, CMul(AsType(a.val, dt), AsType(b.val, dt)))

\* scalar.astype(dtype)
astype(a, dt) == NpScalar(dt, a.val)

\* property Product.content
Product_content(self) ==
    (IF self._scalar.val # COne THEN <<self._scalar>> ELSE <<>>) \o self._content

\* helpers.types.safeTypeExpansion: the default widening of small types
safeTypeExpansion(dt) ==
    IF dt \in {"int8", "int16"} THEN "float32"
    ELSE IF dt \in {"int32", "int64", "float32"} THEN "float64"
    ELSE dt

\* the isinstance test left out
isRejected_never(factor) == FALSE

\* Product.__init__: the test of one term that raises TypeError
isRejected(factor) == ~isMatrix(factor)

RECURSIVE addFactors(_, _)
\* Product.__init__.__addFactors, on acc = [scalar, datatype, lstFactors, exc]
addFactors(factors, acc) ==
    IF acc.exc.exc # "none" \/ factors = <<>> THEN acc
    ELSE LET factor == Head(factors)
         IN  IF isscalar(factor)
             THEN addFactors(Tail(factors),
                      [acc EXCEPT !.datatype = promote_types(@, factor.dtype),
                                  !.scalar = inner(@, factor)])
             ELSE IF isRejected(factor)
             THEN [acc EXCEPT !.exc = [exc |-> "TypeError",
                                       text |-> "Product has non-fastmat-matrix terms.",
                                       args |-> <<>>]]
             ELSE IF factor.kind = "Product"
             THEN addFactors(Tail(factors), addFactors(Product_content(factor), acc))
             ELSE IF factor.kind = "junk"
             \* a term without dtype: the attribute lookup raises
             THEN [acc EXCEPT !.exc = [exc |-> "AttributeError", text |-> "dtype",
                                       args |-> <<>>]]
             ELSE addFactors(Tail(factors),
                      [acc EXCEPT !.datatype = promote_types(@, factor.dtype),
                                  !.lstFactors = Append(@, factor)])

\* Product.__init__: the type the options widen dtype to, "None" for none
typeExpansionOf(options, dtype) ==
    IF options.typeExpansion = "default" THEN safeTypeExpansion(dtype)
    ELSE options.typeExpansion

\* Product.__init__: the final element type
expandType(options, dtype) ==
    LET typeExpansion == typeExpansionOf(options, dtype)
    IN  IF typeExpansion = "None" THEN dtype ELSE promote_types(dtype, typeExpansion)

\* the sanity check with the wrong comparison
hasNoTerms_never(lstFactors) == Len(lstFactors) < 0

\* Product.__init__: the sanity check of the amount of product terms
hasNoTerms(lstFactors) == Len(lstFactors) < 1

\* Product.__init__: the arguments of the dimension error's message
dimMessageArgs(ii, numN, numM) == <<ii, numN, numM>>

\* the loop without the comparison of numN with the previous numM
checkDims_unchecked(lstFactors, ii, numN, numM) ==
    [exc |-> NoExc, numM |-> lstFactors[Len(lstFactors)].numM]

RECURSIVE checkDims(_, _, _, _)
\* Product.__init__: the loop over lstFactors[ii .. ], lstFactors[ii] being the
\* sequence's element ii + 1; [exc, numM]
checkDims(lstFactors, ii, numN, numM) ==
    IF ii >= Len(lstFactors) THEN [exc |-> NoExc, numM |-> numM]
    ELSE LET factor == lstFactors[ii + 1]
         IN  IF factor.numN # numM
             THEN [exc |-> [exc |-> "ValueError",
                            text |-> "Dimensions of product factor %d [%dx%d] do not match.",
                            args |-> dimMessageArgs(ii, numN, numM)],
                   numM |-> numM]
             ELSE checkDims(lstFactors, ii + 1, numN, factor.numM)

\* Product.__init__(*matrices, **options): [exc, inited, self]; the caller is
\* handed self only when exc = NoExc
Product_init(matrices, options) ==
    LET acc == addFactors(matrices,
                   [scalar |-> NpScalar("int8", COne), datatype |-> "int8",
                    lstFactors |-> <<>>, exc |-> NoExc])
        dtype == expandType(options, acc.datatype)
        dims == checkDims(acc.lstFactors, 1, acc.lstFactors[1].numN, acc.lstFactors[1].numM)
        partial == [kind |-> "Product", _scalar |-> acc.scalar]
    IN  IF acc.exc.exc # "none"
        THEN [exc |-> acc.exc, inited |-> FALSE, self |-> partial]
        ELSE IF hasNoTerms(acc.lstFactors)
        THEN [exc |-> [exc |-> "ValueError", text |-> "Product has no terms.", args |-> <<>>],
              inited |-> FALSE, self |-> partial]
        ELSE IF acc.lstFactors = <<>>
        \* lstFactors[0] of an empty list
        THEN [exc |-> [exc |-> "IndexError", text |-> "list index out of range", args |-> <<>>],
              inited |-> FALSE, self |-> partial]
        ELSE IF dims.exc.exc # "none"
        THEN [exc |-> dims.exc, inited |-> FALSE, self |-> partial]
        ELSE [exc |-> NoExc, inited |-> TRUE,
              self |-> [kind |-> "Product",
                        _scalar |-> astype(acc.scalar, dtype),
                        _content |-> acc.lstFactors,
                        numN |-> acc.lstFactors[1].numN,
                        numM |-> dims.numM,
                        dtype |-> dtype,
                        _forwardReferenceMatrix |-> None]]

(***************************************************************************)
(* class Product: forward, backward, reference                             *)
(***************************************************************************)
\* Product._forward: the scalar multiplication before the factors
forwardScalar(self, arrX) ==
    IF self._scalar.val # COne THEN Scale(arrX, self._scalar.val) ELSE arrX

\* the factors applied first to last
forwardIndex_ascending(cnt, ii) == ii

\* Product._forward: the factor applied in round ii of cnt
forwardIndex(cnt, ii) == cnt - 1 - ii

RECURSIVE forwardLoop(_, _, _)
\* Product._forward: rounds ii .. cnt - 1 of the loop over the factors
forwardLoop(self, ii, arrRes) ==
    LET cnt == Len(self._content)
        iii == forwardIndex(cnt, ii)
    IN  IF ii >= cnt THEN arrRes
        ELSE forwardLoop(self, ii + 1, Matrix_forward(self._content[iii + 1], arrRes))

\* Product._forward(arrX)
Product_forward(self, arrX) == forwardLoop(self, 0, forwardScalar(self, arrX))

\* np.iscomplex(scalar)
iscomplex(a) == a.val[2] # 0

\* Product._backward: the scalar multiplication before the factors
backwardScalar(self, arrX) ==
    IF self._scalar.val # COne
    THEN (IF iscomplex(self._scalar)
          THEN Scale(arrX, CConj(self._scalar.val))
          ELSE Scale(arrX, self._scalar.val))
    ELSE arrX

\* Product._backward: the factor applied in round ii of cnt
backwardIndex(cnt, ii) == ii

RECURSIVE backwardLoop(_, _, _)
\* Product._backward: rounds ii .. cnt - 1 of the loop over the factors
backwardLoop(self, ii, arrRes) ==
    LET cnt == Len(self._content)
    IN  IF ii >= cnt THEN arrRes
        ELSE backwardLoop(self, ii + 1,
                 Matrix_backward(self._content[backwardIndex(cnt, ii) + 1], arrRes))

\* Product._backward(arrX)
Product_backward(self, arrX) == backwardLoop(self, 0, backwardScalar(self, arrX))

RECURSIVE getColLoop(_, _, _)
\* Product._getCol: rounds ii .. cnt - 1 of the loop over the factors
getColLoop(self, ii, arrRes) ==
    LET cnt == Len(self._content)
        iii == cnt - 1 - ii
    IN  IF ii >= cnt THEN arrRes
        ELSE getColLoop(self, ii + 1, Matrix_forward(self._content[iii + 1], arrRes))

\* Product._getCol: the column the recursion is seeded with
getColSeed(self, idx) ==
    LET cnt == Len(self._content)
        iii == cnt - 1
    IN  Matrix_getCol(self._content[iii + 1], idx)

\* Product._getCol(idx)
Product_getCol(self, idx) ==
    getColLoop(self, 1, forwardScalar(self, getColSeed(self, idx)))

RECURSIVE getRowLoop(_, _, _)
\* Product._getRow: rounds ii .. cnt - 1 of the loop over the factors
getRowLoop(self, ii, arrRes) ==
    LET cnt == Len(self._content)
    IN  IF ii >= cnt THEN arrRes
        ELSE getRowLoop(self, ii + 1, Matrix_backward(self._content[ii + 1], arrRes))

\* Product._getRow(idx)
Product_getRow(self, idx) ==
    LET ii == 0
        arrRes == conjugate(Matrix_getRow(self._content[ii + 1], idx))
    IN  conjugate(getRowLoop(self, 1, backwardScalar(self, arrRes)))

RECURSIVE referenceLoop(_, _, _)
\* Product._reference: rounds ii .. cnt - 1 of the loop over the factors
referenceLoop(self, ii, arrRes) ==
    LET cnt == Len(self._content)
        term == self._content[(cnt - ii - 1) + 1]
    IN  IF ii >= cnt THEN arrRes
        ELSE referenceLoop(self, ii + 1, Dot(Matrix_reference(term), arrRes))

\* Product._reference()
Product_reference(self) ==
    LET cnt == Len(self._content)
        dtype == promote_types("float64", self.dtype)
    IN  referenceLoop(self, 1,
            Scale(Matrix_reference(self._content[(cnt - 1) + 1]),
                  astype(self._scalar, dtype).val))

RECURSIVE forwardReferenceInitLoop_reversed(_, _, _)
\* the references inserted at the front of the list instead of appended
forwardReferenceInitLoop_reversed(self, ii, lst) ==
    IF ii >= Len(self._content) THEN lst
    ELSE forwardReferenceInitLoop_reversed(self, ii + 1,
             <<Matrix_reference(self._content[ii + 1])>> \o lst)

RECURSIVE forwardReferenceInitLoop(_, _, _)
\* Product._forwardReferenceInit: the appends of terms ii .. of the content
forwardReferenceInitLoop(self, ii, lst) ==
    IF ii >= Len(self._content) THEN lst
    ELSE forwardReferenceInitLoop(self, ii + 1,
             Append(lst, Matrix_reference(self._content[ii + 1])))

\* Product._forwardReferenceInit(): self afterwards
Product_forwardReferenceInit(self) ==
    [self EXCEPT !._forwardReferenceMatrix = List(forwardReferenceInitLoop(self, 0, <<>>))]

RECURSIVE forwardReferenceLoop(_, _, _)
\* Product._forwardReference: the loop for ii, ii - 1, .. 1
forwardReferenceLoop(self, ii, arrRes) ==
    IF ii <= 0 THEN arrRes
    ELSE forwardReferenceLoop(self, ii - 1,
             Dot(self._forwardReferenceMatrix.items[(ii - 1) + 1], arrRes))

\* Product._forwardReference(arrX): [self, val], self afterwards and the result
Product_forwardReference(self, arrX) ==
    LET inited == IF ~self._forwardReferenceMatrix.isList
                  THEN Product_forwardReferenceInit(self)
                  ELSE self
    IN  [self |-> inited,
         val |-> forwardReferenceLoop(inited, Len(inited._content), arrX)]

(***************************************************************************)
(* The inputs: coefficient tensors, input batches, the terms of a product. *)
(***************************************************************************)
PaletteR == << <<1, 0>>, <<2, 0>>, <<-1, 0>>, <<3, 0>>, <<0, 0>> >>

PaletteC == << <<1, 0>>, <<0, 1>>, <<2, -1>>, <<-1, 0>>, <<1, 1>> >>

Pick(dt, i) ==
    IF IsComplexType(dt) THEN PaletteC[(i % 5) + 1] ELSE PaletteR[(i % 5) + 1]

\* a coefficient tensor of shape (R, C, S) and element type dt
TenDiags(R, C, S, dt, seed) ==
    [d |-> <<R, C, S>>, dtype |-> dt,
     at |-> Arr3(R, C, S, LAMBDA n, m, z : Pick(dt, seed + 3 * n + m + 2 * z)).at]

\* an input batch of n rows and k columns
Batch(n, k, seed) == Arr(n, k, LAMBDA i, j : Pick("complex64", seed + 2 * i + j))

\* the batches of n rows a call is given
Batches(n) ==
    {Batch(n, 1, seed) : seed \in 0..MaxSeed} \cup {Batch(n, k, 0) : k \in 2..MaxCols}

\* the leaf operators a Product is built from
Factors ==
    << DiagBlocks_init(TenDiags(2, 2, 1, "complex64", 1)),
       DiagBlocks_init(TenDiags(1, 2, 1, "int8", 0)),
       DiagBlocks_init(TenDiags(2, 1, 1, "int16", 1)) >>

\* the scalar terms a Product is built from
Scalars ==
    << NpScalar("int8", <<100, 0>>),
       NpScalar("complex64", <<0, 1>>) >>

\* a term that is neither a scalar nor a Matrix
Junk == [kind |-> "junk"]

\* the terms a caller holding the product p can write
TermList(p) ==
    Scalars \o Factors \o <<Junk>> \o (IF p.kind = "Product" THEN <<p>> ELSE <<>>)

\* the values of the option typeExpansion
Options ==
    {[typeExpansion |-> "default"], [typeExpansion |-> "None"], [typeExpansion |-> "complex128"]}

(***************************************************************************)
(* The state.                                                              *)
(***************************************************************************)
VARIABLES
    P,          \* the Product the caller holds, NoObj when it holds none
    exc,        \* the exception the last Product(...) call raised, or NoExc
    inited,     \* whether the last Product(...) call reached _initProperties
    written,    \* the leaf terms the last Product(...) call was written from
    opts,       \* the options of the last Product(...) call
    D,          \* the DiagBlocks the caller holds, NoObj when it holds none
    tenDiags,   \* the caller's coefficient tensor, handed to DiagBlocks(...)
    given,      \* the value that tensor had when DiagBlocks(...) was called
    ret,        \* the last call of an operator: [op, arg, val]
    thr         \* the callers inside _forwardReference: thread -> [pc, arrX, ii, arrRes, val]

vars == <<P, exc, inited, written, opts, D, tenDiags, given, ret, thr>>

NoCall == [op |-> "none"]

NoTensor == [d |-> <<0, 0, 0>>]

Threads == 1..MaxThreads

\* a caller outside _forwardReference
Idle == [pc |-> "idle", arrX |-> NoCall, ii |-> 0, arrRes |-> NoCall, val |-> NoCall]

RECURSIVE Flat(_, _)
\* the leaf terms of the arguments args, the product p being written from w
Flat(args, w) ==
    IF args = <<>> THEN <<>>
    ELSE (IF Head(args).kind = "Product" THEN w ELSE <<Head(args)>>) \o Flat(Tail(args), w)

Init ==
    /\ P = NoObj
    /\ exc = NoExc
    /\ inited = FALSE
    /\ written = <<>>
    /\ opts = [typeExpansion |-> "default"]
    /\ D = NoObj
    /\ tenDiags = NoTensor
    /\ given = NoTensor
    /\ ret = NoCall
    /\ thr = [t \in Threads |-> Idle]

(***************************************************************************)
(* The calls on a Product.                                                 *)
(***************************************************************************)
\* P = Product(*matrices, **options).  The constructor reads neither ret nor
\* the cache of a nested product, and a call that does not nest the product
\* the caller holds gives what the same call gives in the initial state: the
\* calls taken are those of the initial state and those that nest P.
NewProduct ==
    /\ ret = NoCall
    /\ P.kind = "Product" \/ exc = NoExc
    /\ \E n \in 0..MaxArgs :
          \* every argument is written from at least one leaf term
          /\ n + (IF P.kind = "Product" THEN Len(written) - 1 ELSE 0) <= MaxWritten
          /\ \E ix \in [1..n -> 1..Len(TermList(P))] : \E options \in Options :
                LET matrices == [i \in 1..n |-> TermList(P)[ix[i]]]
                    w == Flat(matrices, written)
                    call == Product_init(matrices, options)
                IN  /\ P.kind = "Product" => \E i \in 1..n : matrices[i].kind = "Product"
                    /\ Len(w) <= MaxWritten
                    /\ exc' = call.exc
                    /\ inited' = call.inited
                    /\ P' = IF call.exc = NoExc THEN call.self ELSE NoObj
                    /\ written' = w
                    /\ opts' = options
                    /\ ret' = NoCall
                    /\ UNCHANGED <<D, tenDiags, given, thr>>

\* P.forward(arrX)
Forward ==
    /\ P.kind = "Product"
    /\ \E arrX \in Batches(P.numM) :
          ret' = [op |-> "forward", arg |-> arrX, val |-> Product_forward(P, arrX)]
    /\ UNCHANGED <<P, exc, inited, written, opts, D, tenDiags, given, thr>>

\* P.backward(arrX)
Backward ==
    /\ P.kind = "Product"
    /\ \E arrX \in Batches(P.numN) :
          ret' = [op |-> "backward", arg |-> arrX, val |-> Product_backward(P, arrX)]
    /\ UNCHANGED <<P, exc, inited, written, opts, D, tenDiags, given, thr>>

\* P.reference()
Reference ==
    /\ P.kind = "Product"
    /\ ret' = [op |-> "reference", arg |-> NoCall, val |-> Product_reference(P)]
    /\ UNCHANGED <<P, exc, inited, written, opts, D, tenDiags, given, thr>>

\* P._forwardReference(arrX)
ForwardReference ==
    /\ P.kind = "Product"
    /\ \E arrX \in Batches(P.numM) :
          LET call == Product_forwardReference(P, arrX)
          IN  /\ P' = call.self
              /\ ret' = [op |-> "_forwardReference", arg |-> arrX, val |-> call.val]
    /\ UNCHANGED <<exc, inited, written, opts, D, tenDiags, given, thr>>

\* P.getCol(idx)
GetCol ==
    /\ P.kind = "Product"
    /\ \E idx \in 0..(P.numM - 1) :
          ret' = [op |-> "getCol", arg |-> [idx |-> idx], val |-> Product_getCol(P, idx)]
    /\ UNCHANGED <<P, exc, inited, written, opts, D, tenDiags, given, thr>>

\* P.getRow(idx)
GetRow ==
    /\ P.kind = "Product"
    /\ \E idx \in 0..(P.numN - 1) :
          ret' = [op |-> "getRow", arg |-> [idx |-> idx], val |-> Product_getRow(P, idx)]
    /\ UNCHANGED <<P, exc, inited, written, opts, D, tenDiags, given, thr>>

Next ==
    \/ NewProduct
    \/ Forward
    \/ Backward
    \/ Reference
    \/ ForwardReference
    \/ GetCol
    \/ GetRow

Spec == Init /\ [][Next]_vars

(***************************************************************************)
(* The calls on a DiagBlocks.                                              *)
(***************************************************************************)
\* the element types of the coefficient tensors
TensorTypes == {"int8", "complex64"}

\* D = DiagBlocks(tenDiags)
NewDiagBlocks ==
    /\ \E R \in 1..MaxDim, C \in 1..MaxDim, S \in 1..MaxDim, dt \in TensorTypes, seed \in 0..MaxSeed :
          /\ tenDiags' = TenDiags(R, C, S, dt, seed)
          /\ D' = DiagBlocks_init(tenDiags')
          /\ given' = tenDiags'
    /\ ret' = NoCall
    /\ UNCHANGED <<P, exc, inited, written, opts, thr>>

\* D.forward(arrX)
DiagForward ==
    /\ D.kind = "DiagBlocks"
    /\ \E arrX \in Batches(D.numM) \cup {Eye(D.numM)} :
          ret' = [op |-> "forward", arg |-> arrX, val |-> Matrix_forward(D, arrX)]
    /\ UNCHANGED <<P, exc, inited, written, opts, D, tenDiags, given, thr>>

\* D.backward(arrX)
DiagBackward ==
    /\ D.kind = "DiagBlocks"
    /\ \E arrX \in Batches(D.numN) \cup {Eye(D.numN)} :
          ret' = [op |-> "backward", arg |-> arrX, val |-> Matrix_backward(D, arrX)]
    /\ UNCHANGED <<P, exc, inited, written, opts, D, tenDiags, given, thr>>

\* D.reference()
DiagReference ==
    /\ D.kind = "DiagBlocks"
    /\ ret' = [op |-> "reference", arg |-> NoCall, val |-> Matrix_reference(D)]
    /\ UNCHANGED <<P, exc, inited, written, opts, D, tenDiags, given, thr>>

NextDiag == NewDiagBlocks \/ DiagForward \/ DiagBackward \/ DiagReference

SpecDiag == Init /\ [][NextDiag]_vars

(***************************************************************************)
(* The caller writing to the array it handed to DiagBlocks(...).           *)
(***************************************************************************)
\* the value a caller writes
Overwritten == <<7, 0>>

\* the elements of the caller's array that no longer hold the given value
Changed ==
    {idx \in (0..(tenDiags.d[1] - 1)) \X (0..(tenDiags.d[2] - 1)) \X (0..(tenDiags.d[3] - 1)) :
        tenDiags.at[idx[1]][idx[2]][idx[3]] # given.at[idx[1]][idx[2]][idx[3]]}

\* tenDiags[0, m, 0] = value, by the caller
WriteTensor ==
    /\ D.kind = "DiagBlocks"
    /\ Cardinality(Changed) < MaxWrites
    /\ \E m \in 0..(tenDiags.d[2] - 1) :
          /\ tenDiags' = [tenDiags EXCEPT !.at[0][m][0] = Overwritten]
          /\ D' = afterCallerWrite(D, tenDiags')
    /\ UNCHANGED <<P, exc, inited, written, opts, given, ret, thr>>

\* a caller holding the DiagBlocks it has constructed from its array
InitCopy ==
    /\ P = NoObj
    /\ exc = NoExc
    /\ inited = FALSE
    /\ written = <<>>
    /\ opts = [typeExpansion |-> "default"]
    /\ \E R \in 1..MaxDim, C \in 1..MaxDim, S \in 1..MaxDim, dt \in TensorTypes, seed \in 0..MaxSeed :
          /\ tenDiags = TenDiags(R, C, S, dt, seed)
          /\ given = tenDiags
          /\ D = DiagBlocks_init(tenDiags)
    /\ ret = NoCall
    /\ thr = [t \in Threads |-> Idle]

NextCopy == WriteTensor \/ DiagForward \/ DiagBackward \/ DiagReference

SpecCopy == InitCopy /\ [][NextCopy]_vars

(***************************************************************************)
(* Callers sharing one Product inside _forwardReference with no guard.     *)
(* A caller advances one step at a time: the test of the cache, the reset  *)
(* of the cache, one append, one read of the cache.                        *)
(***************************************************************************)
\* the term lists of the products that are shared
RaceTerms ==
    { <<Factors[1]>>,
      <<Factors[1], Factors[1]>>,
      <<Scalars[2], Factors[2], Factors[1], Factors[3]>> }

InitRace ==
    /\ \E terms \in RaceTerms :
          /\ P = Product_init(terms, [typeExpansion |-> "default"]).self
          /\ written = terms
    /\ opts = [typeExpansion |-> "default"]
    /\ exc = NoExc
    /\ inited = TRUE
    /\ D = NoObj
    /\ tenDiags = NoTensor
    /\ given = NoTensor
    /\ ret = NoCall
    /\ thr = [t \in Threads |-> Idle]

\* caller t calls P._forwardReference(arrX)
RaceCall(t) ==
    /\ thr[t].pc = "idle"
    /\ \E arrX \in Batches(P.numM) :
          thr' = [thr EXCEPT ![t] = [Idle EXCEPT !.pc = "check", !.arrX = arrX]]
    /\ UNCHANGED <<P, exc, inited, written, opts, D, tenDiags, given, ret>>

\* if not isinstance(self._forwardReferenceMatrix, list)
RaceCheck(t) ==
    /\ thr[t].pc = "check"
    /\ thr' = [thr EXCEPT ![t] =
                  IF ~P._forwardReferenceMatrix.isList
                  THEN [@ EXCEPT !.pc = "reset"]
                  ELSE [@ EXCEPT !.pc = "loop", !.arrRes = thr[t].arrX, !.ii = Len(P._content)]]
    /\ UNCHANGED <<P, exc, inited, written, opts, D, tenDiags, given, ret>>

\* self._forwardReferenceMatrix = []
RaceReset(t) ==
    /\ thr[t].pc = "reset"
    /\ P' = [P EXCEPT !._forwardReferenceMatrix = List(<<>>)]
    /\ thr' = [thr EXCEPT ![t] = [@ EXCEPT !.pc = "append", !.ii = 0]]
    /\ UNCHANGED <<exc, inited, written, opts, D, tenDiags, given, ret>>

\* one round of: for ii, term in enumerate(self._content):
\*     self._forwardReferenceMatrix.append(term.reference())
\* and, past the last round, arrRes = arrX
RaceAppend(t) ==
    /\ thr[t].pc = "append"
    /\ IF thr[t].ii < Len(P._content)
       THEN /\ P' = [P EXCEPT !._forwardReferenceMatrix =
                        List(Append(@.items, Matrix_reference(P._content[thr[t].ii + 1])))]
            /\ thr' = [thr EXCEPT ![t] = [@ EXCEPT !.ii = @ + 1]]
       ELSE /\ P' = P
            /\ thr' = [thr EXCEPT ![t] =
                          [@ EXCEPT !.pc = "loop", !.arrRes = thr[t].arrX, !.ii = Len(P._content)]]
    /\ UNCHANGED <<exc, inited, written, opts, D, tenDiags, given, ret>>

\* one round of: for ii in range(len(self._content), 0, -1):
\*     arrRes = self._forwardReferenceMatrix[ii - 1].dot(arrRes)
\* and, past the last round, return arrRes
RaceRead(t) ==
    /\ thr[t].pc = "loop"
    /\ LET ii == thr[t].ii
           items == P._forwardReferenceMatrix.items
           arrRes == Dot(items[(ii - 1) + 1], thr[t].arrRes)
       IN  thr' = [thr EXCEPT ![t] =
                      IF ii <= 0
                      THEN [@ EXCEPT !.pc = "done", !.val = thr[t].arrRes]
                      ELSE IF ii - 1 >= Len(items)
                      THEN [@ EXCEPT !.pc = "done",
                                     !.val = Raise("IndexError: list index out of range")]
                      ELSE IF IsErr(arrRes)
                      THEN [@ EXCEPT !.pc = "done", !.val = arrRes]
                      ELSE [@ EXCEPT !.arrRes = arrRes, !.ii = ii - 1]]
    /\ UNCHANGED <<P, exc, inited, written, opts, D, tenDiags, given, ret>>

\* the call of caller t has returned or raised; the caller goes on
RaceReturn(t) ==
    /\ thr[t].pc = "done"
    /\ thr' = [thr EXCEPT ![t] = Idle]
    /\ UNCHANGED <<P, exc, inited, written, opts, D, tenDiags, given, ret>>

NextRace ==
    \E t \in Threads :
        \/ RaceCall(t)
        \/ RaceCheck(t)
        \/ RaceReset(t)
        \/ RaceAppend(t)
        \/ RaceRead(t)
        \/ RaceReturn(t)

SpecRace == InitRace /\ [][NextRace]_vars

(***************************************************************************)
(* What the claims are stated with.                                        *)
(***************************************************************************)
RECURSIVE ChainForward(_, _)
\* F0.forward(F1.forward(... Fk-1.forward(X))) for the factors F0 .. Fk-1
ChainForward(factors, X) ==
    IF factors = <<>> THEN X
    ELSE Matrix_forward(Head(factors), ChainForward(Tail(factors), X))

RECURSIVE ChainBackward(_, _)
\* Fk-1.backward(... F1.backward(F0.backward(X))) for the factors F0 .. Fk-1
ChainBackward(factors, X) ==
    IF factors = <<>> THEN X
    ELSE ChainBackward(Tail(factors), Matrix_backward(Head(factors), X))

RECURSIVE DenseProduct(_)
\* the dense matrix F0 . F1 ... Fk-1 of the factors' references
DenseProduct(factors) ==
    IF Len(factors) = 1 THEN Matrix_reference(factors[1])
    ELSE Dot(Matrix_reference(Head(factors)), DenseProduct(Tail(factors)))

\* the batches of n rows and k columns
BatchesOf(n, k) == {X \in Batches(n) : X.k = k}

\* the terms of a sequence that are scalars, and those that are not
ScalarsOf(terms) == SelectSeq(terms, isscalar)

IsOperand(term) == ~isscalar(term)

OperandsOf(terms) == SelectSeq(terms, IsOperand)

RECURSIVE ExactProduct(_)
\* the mathematical product of the values of scalar terms
ExactProduct(terms) ==
    IF terms = <<>> THEN COne ELSE CMul(Head(terms).val, ExactProduct(Tail(terms)))

\* a Product(...) call was made and raised
Raised == exc.exc # "none"

\* the caller holds a Product
Holds == P.kind = "Product"

(***************************************************************************)
(* C1: forward(X) of a Product with scalar s and factors F0 .. Fk-1 is     *)
(* s * F0.forward(F1.forward(... Fk-1.forward(X))), has numN rows and the  *)
(* columns of X, and is reference() applied to X.                          *)
(***************************************************************************)
C1_ForwardIsChain ==
    (Holds /\ ret.op = "forward") =>
        /\ ~IsErr(ret.val)
        /\ ret.val = Scale(ChainForward(P._content, ret.arg), P._scalar.val)
        /\ ret.val.n = P.numN
        /\ ret.val.k = ret.arg.k
        /\ ret.val = Dot(Product_reference(P), ret.arg)
        /\ ret.val = Scale(Dot(DenseProduct(P._content), ret.arg), P._scalar.val)

\* forward of a product of two factors that do not commute, with a scalar
C1_Witness ==
    /\ Holds /\ ret.op = "forward"
    /\ Len(P._content) = 2 /\ P._content[1] # P._content[2]
    /\ P._content[1].numN = P._content[1].numM
    /\ P._scalar.val # COne
    /\ ret.arg.k = 2

(***************************************************************************)
(* C2: adjoint law of a Product: <P.forward(x), y> = <x, P.backward(y)>,   *)
(* backward(y) being conj(s) times the factors' backward applied first     *)
(* factor first, with numM rows.                                           *)
(***************************************************************************)
C2_AdjointLaw ==
    (Holds /\ ret.op = "backward") =>
        /\ ~IsErr(ret.val)
        /\ ret.val.n = P.numM
        /\ ret.val = Scale(ChainBackward(P._content, ret.arg), CConj(P._scalar.val))
        /\ \A x \in BatchesOf(P.numM, ret.arg.k) :
              InnerProd(Product_forward(P, x), ret.arg) = InnerProd(x, ret.val)

\* every factor of the product the caller holds has as many block rows as
\* block columns
SquareBlocks == \A i \in 1..Len(P._content) : P._content[i]._numDiagsN = P._content[i]._numDiagsM

\* the adjoint law of the products whose factors all have square block
\* structure: Product._backward itself is the adjoint of Product._forward
AdjointLawSquareBlocks ==
    (Holds /\ ret.op = "backward" /\ SquareBlocks) =>
        /\ ~IsErr(ret.val)
        /\ ret.val.n = P.numM
        /\ ret.val = Scale(ChainBackward(P._content, ret.arg), CConj(P._scalar.val))
        /\ ret.val = Dot(Herm(Product_reference(P)), ret.arg)
        /\ \A x \in BatchesOf(P.numM, ret.arg.k) :
              InnerProd(Product_forward(P, x), ret.arg) = InnerProd(x, ret.val)

\* backward of a product of two such factors with a complex scalar
AdjointLawSquareBlocksWitness ==
    /\ Holds /\ ret.op = "backward" /\ SquareBlocks
    /\ Len(P._content) = 2
    /\ iscomplex(P._scalar)

(***************************************************************************)
(* C3: a Product written with nested Products and the Product written from *)
(* the same terms flat have the same content, the same scalar and the same *)
(* forward and backward results.                                           *)
(***************************************************************************)
C3_FlatteningIdempotence ==
    Holds =>
        LET flat == Product_init(written, [typeExpansion |-> "default"])
        IN  /\ flat.exc = NoExc
            /\ flat.self._content = P._content
            /\ flat.self._scalar.val = P._scalar.val
            /\ \A X \in Batches(P.numM) :
                  Product_forward(flat.self, X) = Product_forward(P, X)
            /\ \A X \in Batches(P.numN) :
                  Product_backward(flat.self, X) = Product_backward(P, X)

(***************************************************************************)
(* C4: the scalar of a Product is the product of its scalar terms in       *)
(* encounter order, and its content is exactly its operator terms in their *)
(* order, with no scalar in it.                                            *)
(***************************************************************************)
C4_ScalarAbsorption ==
    Holds =>
        /\ P._scalar.val = ExactProduct(ScalarsOf(written))
        /\ Product_content(P) = OperandsOf(written)

(***************************************************************************)
(* C5: a Product whose flattened factors hold an adjacent pair with        *)
(* content[i].numM # content[i+1].numN is not constructed: the call raises *)
(* the dimension error before _initProperties, and the error names the     *)
(* offending factor and the two sizes content[i].numM, content[i+1].numN.  *)
(***************************************************************************)
\* the flattened factors of the last call, when every term was a scalar or a Matrix
Flattened == OperandsOf(written)

Mismatches ==
    {i \in 1..(Len(Flattened) - 1) : Flattened[i].numM # Flattened[i + 1].numN}

NoJunk == \A i \in 1..Len(written) : written[i].kind # "junk"

C5_DimensionMismatch ==
    (NoJunk /\ Mismatches # {}) =>
        /\ exc.exc = "ValueError"
        /\ exc.text = "Dimensions of product factor %d [%dx%d] do not match."
        /\ ~inited
        /\ P = NoObj
        /\ \E i \in Mismatches :
              \* the sequence's elements i and i + 1 are content[i-1] and content[i]
              /\ exc.args[1] \in {i - 1, i}
              /\ <<exc.args[2], exc.args[3]>> \in
                    {<<Flattened[i].numM, Flattened[i + 1].numN>>,
                     <<Flattened[i + 1].numN, Flattened[i].numM>>}

(***************************************************************************)
(* C6: a Product(...) call with no term that is not a scalar raises the    *)
(* empty-composition error before _initProperties, and no Product with an  *)
(* empty content is ever held.                                             *)
(***************************************************************************)
AllScalar == \A i \in 1..Len(written) : isscalar(written[i])

C6_EmptyRejected ==
    /\ (AllScalar /\ (Raised \/ Holds)) =>
          /\ exc.exc = "ValueError"
          /\ exc.text = "Product has no terms."
          /\ ~inited
          /\ P = NoObj
    /\ Holds => Len(P._content) >= 1

\* Product(s1, s2) of two scalars was called
C6_Witness == AllScalar /\ Len(written) = 2 /\ Raised

(***************************************************************************)
(* C7: a Product(...) call with a term that is neither a scalar nor a      *)
(* Matrix raises TypeError, whatever the other terms are, and hands out no *)
(* object.                                                                 *)
(***************************************************************************)
C7_TypeError ==
    (~NoJunk) =>
        /\ exc.exc = "TypeError"
        /\ exc.text = "Product has non-fastmat-matrix terms."
        /\ ~inited
        /\ P = NoObj

\* the call had, besides the rejected term, two factors that do not fit
C7_Witness ==
    /\ ~NoJunk
    /\ Raised
    /\ \E i \in 1..(Len(written) - 1) :
          /\ isMatrix(written[i]) /\ isMatrix(written[i + 1])
          /\ written[i].numM # written[i + 1].numN

(***************************************************************************)
(* C8: for a coefficient tensor of shape (R, C, S), forward(X) of a        *)
(* DiagBlocks has R*S rows, its block n being the sum over m of            *)
(* diag(tensor[n,m,:]) times block m of X; reference() holds               *)
(* diag(tensor[n,m,:]) at block offset (n*S, m*S) and zero elsewhere; and  *)
(* forward of the identity is reference().                                 *)
(***************************************************************************)
HoldsDiag == D.kind = "DiagBlocks"

\* the shape of the tensor the caller gave
TR == tenDiags.d[1]

TC == tenDiags.d[2]

TS == tenDiags.d[3]

C8_ForwardAndReference ==
    HoldsDiag =>
        /\ ret.op = "forward" =>
              /\ ~IsErr(ret.val)
              /\ ret.val.n = TR * TS
              /\ ret.val.k = ret.arg.k
              /\ \A n \in 0..(TR - 1), z \in 0..(TS - 1), k \in 0..(ret.arg.k - 1) :
                    ret.val.at[n * TS + z][k] =
                        CSum([m \in 0..(TC - 1) |->
                                 CMul(tenDiags.at[n][m][z], ret.arg.at[m * TS + z][k])], TC)
        /\ ret.op = "reference" =>
              /\ ret.val.n = TR * TS
              /\ ret.val.k = TC * TS
              /\ \A n \in 0..(TR - 1), m \in 0..(TC - 1), a \in 0..(TS - 1), b \in 0..(TS - 1) :
                    ret.val.at[n * TS + a][m * TS + b] =
                        IF a = b THEN tenDiags.at[n][m][a] ELSE CZero
        /\ (ret.op = "forward" /\ ret.arg = Eye(TC * TS)) =>
              ret.val = DiagBlocks_reference(D)

\* forward of the identity by a DiagBlocks of more block columns than block
\* rows, with blocks of more than one element
C8_Witness ==
    /\ HoldsDiag /\ ret.op = "forward"
    /\ TR < TC /\ TS > 1
    /\ ret.arg = Eye(TC * TS)
    /\ ~IsErr(ret.val)

(***************************************************************************)
(* C9: for a coefficient tensor of shape (R, C, S), R = C or not,          *)
(* backward(X) of a DiagBlocks has C*S rows, its block m being the sum     *)
(* over n of diag(conj(tensor[n,m,:])) times block n of X: the conjugate   *)
(* transpose of reference() applied to X, so that                          *)
(* <forward(x), y> = <x, backward(y)>.                                     *)
(***************************************************************************)
C9_BackwardIsAdjoint ==
    (HoldsDiag /\ ret.op = "backward") =>
        /\ ~IsErr(ret.val)
        /\ ret.val.n = TC * TS
        /\ \A m \in 0..(TC - 1), z \in 0..(TS - 1), k \in 0..(ret.arg.k - 1) :
              ret.val.at[m * TS + z][k] =
                  CSum([n \in 0..(TR - 1) |->
                           CMul(CConj(tenDiags.at[n][m][z]), ret.arg.at[n * TS + z][k])], TR)
        /\ ret.val = Dot(Herm(DiagBlocks_reference(D)), ret.arg)
        /\ \A x \in BatchesOf(D.numM, ret.arg.k) :
              InnerProd(Matrix_forward(D, x), ret.arg) = InnerProd(x, ret.val)

\* the same for the tensors of as many block rows as block columns, where
\* _backwardC is the adjoint of _forwardC
BackwardIsAdjointSquareBlocks ==
    (HoldsDiag /\ ret.op = "backward" /\ TR = TC) =>
        /\ ~IsErr(ret.val)
        /\ ret.val = Dot(Herm(DiagBlocks_reference(D)), ret.arg)
        /\ \A x \in BatchesOf(D.numM, ret.arg.k) :
              InnerProd(Matrix_forward(D, x), ret.arg) = InnerProd(x, ret.val)

(***************************************************************************)
(* C10: _forwardReference(X) of a Product, on its first call and on every  *)
(* later one, is reference() applied to X, for any scalar.                 *)
(***************************************************************************)
C10_CachedIsReference ==
    (Holds /\ ret.op = "_forwardReference") =>
        ret.val = Dot(Product_reference(P), ret.arg)

\* the same for the products whose scalar is 1: the cached matrices are the
\* factors' references, and the scalar is not applied
CachedIsReferenceUnscaled ==
    (Holds /\ ret.op = "_forwardReference") =>
        /\ ret.val = Dot(DenseProduct(P._content), ret.arg)
        /\ P._scalar.val = COne => ret.val = Dot(Product_reference(P), ret.arg)

(***************************************************************************)
(* C11: callers sharing one Product and calling _forwardReference with no  *)
(* guard: under every interleaving of their steps every call completes     *)
(* without error with the result of a sequential call, and once no call is *)
(* under way the cache holds one reference matrix per factor, in content   *)
(* order.                                                                  *)
(***************************************************************************)
\* the product the callers share, before any call
Fresh == [P EXCEPT !._forwardReferenceMatrix = None]

\* no caller is inside _forwardReference
Quiet == \A t \in Threads : thr[t].pc \in {"idle", "done"}

C11_RaceFree ==
    /\ \A t \in Threads :
          thr[t].pc = "done" =>
              /\ ~IsErr(thr[t].val)
              /\ thr[t].val = Product_forwardReference(Fresh, thr[t].arrX).val
    /\ (Quiet /\ P._forwardReferenceMatrix.isList) =>
          P._forwardReferenceMatrix = Product_forwardReferenceInit(Fresh)._forwardReferenceMatrix

\* what the interleavings keep: every entry of the cache is the reference of
\* one of the factors
CacheHoldsFactorReferences ==
    P._forwardReferenceMatrix.isList =>
        \A i \in 1..Len(P._forwardReferenceMatrix.items) :
            \E j \in 1..Len(P._content) :
                P._forwardReferenceMatrix.items[i] = Matrix_reference(P._content[j])

(***************************************************************************)
(* C12: every Product a caller holds, after any calls on it, has at least  *)
(* one factor; none of its stored factors is a Product or a scalar; each   *)
(* factor's numM is the next factor's numN; numN is the first factor's     *)
(* numN and numM the last factor's numM.                                   *)
(***************************************************************************)
C12_WellFormed ==
    Holds =>
        LET content == P._content
        IN  /\ Len(content) >= 1
            /\ \A i \in 1..Len(content) :
                  /\ content[i].kind # "Product"
                  /\ ~isscalar(content[i])
                  /\ isMatrix(content[i])
            /\ \A i \in 1..(Len(content) - 1) : content[i].numM = content[i + 1].numN
            /\ P.numN = content[1].numN
            /\ P.numM = content[Len(content)].numM

\* a product of three factors, not all of one shape, on which a call was made
C12_Witness ==
    /\ Holds
    /\ Len(P._content) = 3
    /\ P.numN # P.numM
    /\ ret.op = "_forwardReference"

(***************************************************************************)
(* C13: a DiagBlocks keeps its own copy of the coefficient tensor: after   *)
(* any writes of the caller to the array it supplied, interleaved with     *)
(* forward, backward and reference calls, the stored tensor is the tensor  *)
(* as it was at construction, and every call returns what the operator     *)
(* built from that tensor returns.                                         *)
(***************************************************************************)
\* the operator as constructed
AsGiven == DiagBlocks_init(given)

C13_DefensiveCopy ==
    HoldsDiag =>
        /\ D._tenDiags = [d |-> given.d, at |-> given.at]
        /\ D = AsGiven
        /\ ret.op = "forward" => ret.val = DiagBlocks_forwardC(AsGiven, ret.arg)
        /\ ret.op = "backward" => ret.val = DiagBlocks_backwardC(AsGiven, ret.arg)
        /\ ret.op = "reference" => ret.val = DiagBlocks_reference(AsGiven)

\* a forward call made after the caller overwrote an element of its array
C13_Witness ==
    /\ HoldsDiag
    /\ Changed # {}
    /\ tenDiags.at # given.at
    /\ ret.op = "forward"
    /\ ~IsErr(ret.val)
    /\ ret.val # Matrix_forward(DiagBlocks_init(tenDiags), ret.arg)

(***************************************************************************)
(* C14: for every Product and every valid index, getCol(idx) is column idx *)
(* of reference(), which is forward of the unit vector e_idx, and          *)
(* getRow(idx) is row idx of reference(), which is the complex conjugate   *)
(* of backward of e_idx; the scalar is applied once in each.               *)
(***************************************************************************)
C14_SingleVector ==
    Holds =>
        /\ ret.op = "getCol" =>
              /\ ~IsErr(ret.val)
              /\ ret.val = Column(Product_reference(P), ret.arg.idx)
              /\ ret.val = Product_forward(P, Unit(P.numM, ret.arg.idx))
        /\ ret.op = "getRow" =>
              /\ ~IsErr(ret.val)
              /\ ret.val = Row(Product_reference(P), ret.arg.idx)
              /\ ret.val = conjugate(Product_backward(P, Unit(P.numN, ret.arg.idx)))

\* the factors after the first all have as many block rows as block columns
SquareBlocksAfterFirst ==
    \A i \in 2..Len(P._content) : P._content[i]._numDiagsN = P._content[i]._numDiagsM

\* getCol for every product, and getRow for the products whose factors
\* after the first have square block structure: Product._getCol and
\* Product._getRow themselves extract the column and the row
SingleVectorSquareBlocks ==
    Holds =>
        /\ ret.op = "getCol" =>
              /\ ~IsErr(ret.val)
              /\ ret.val = Column(Product_reference(P), ret.arg.idx)
              /\ ret.val = Product_forward(P, Unit(P.numM, ret.arg.idx))
        /\ (ret.op = "getRow" /\ SquareBlocksAfterFirst) =>
              /\ ~IsErr(ret.val)
              /\ ret.val = Row(Product_reference(P), ret.arg.idx)
        /\ (ret.op = "getRow" /\ SquareBlocks) =>
              ret.val = conjugate(Product_backward(P, Unit(P.numN, ret.arg.idx)))

(***************************************************************************)
(* C15: the dtype of a Product is at least as wide as the element type of  *)
(* every leaf factor and every scalar term the caller supplied; and when   *)
(* the call is given typeExpansion=None the dtype is exactly the join of   *)
(* those element types, however the terms are nested into inner Products,  *)
(* whatever scalar or typeExpansion the inner Products carry.              *)
(***************************************************************************)
RECURSIVE Join(_)
\* the join of the element types of terms in the promotion lattice
Join(terms) ==
    IF terms = <<>> THEN "int8"
    ELSE promote_types(Head(terms).dtype, Join(Tail(terms)))

\* the dtype a is at least as wide as b
AtLeast(a, b) == promote_types(a, b) = a

C15_TypePromotion ==
    Holds =>
        /\ \A i \in 1..Len(written) : AtLeast(P.dtype, written[i].dtype)
        /\ opts.typeExpansion = "None" => P.dtype = Join(written)

\* the half of it that holds
DtypeAtLeastEveryTerm ==
    Holds =>
        /\ \A i \in 1..Len(written) : AtLeast(P.dtype, written[i].dtype)
        /\ AtLeast(P.dtype, Join(written))
        /\ AtLeast(P.dtype, P._scalar.dtype)

(***************************************************************************)
(* C16: the construction of a Product builds no reference cache; in a      *)
(* sequential run of forward, backward, getCol, getRow, reference and      *)
(* _forwardReference calls the cache is populated by the first             *)
(* _forwardReference call, with one dense reference matrix per factor in   *)
(* content order, and is not modified afterwards; scalar, content, shape   *)
(* and dtype do not change after construction.                             *)
(***************************************************************************)
Cached == P._forwardReferenceMatrix.isList

\* the product without its cache
Constructed(p) == [p EXCEPT !._forwardReferenceMatrix = None]

CacheInv ==
    Holds =>
        /\ ret = NoCall => ~Cached
        /\ ret.op = "_forwardReference" => Cached
        /\ Cached =>
              /\ Len(P._forwardReferenceMatrix.items) = Len(P._content)
              /\ \A i \in 1..Len(P._content) :
                    P._forwardReferenceMatrix.items[i] = Matrix_reference(P._content[i])

CacheStep ==
    (Holds /\ ret' # NoCall) =>
        /\ Constructed(P') = Constructed(P)
        /\ Cached => P' = P
        /\ (~Cached /\ P'._forwardReferenceMatrix.isList) => ret'.op = "_forwardReference"
        /\ (~Cached /\ ret'.op # "_forwardReference") => P' = P

C16_OneShotCache == []CacheInv /\ [][CacheStep]_vars

\* a getRow call on a product of two different factors whose cache is built
C16_Witness ==
    /\ Holds
    /\ Cached
    /\ Len(P._content) = 2
    /\ P._content[1] # P._content[2]
    /\ ret.op = "getRow"

(***************************************************************************)
(* C17: the scalar a Product stores is the exact product of its scalar     *)
(* terms whenever that product is representable in the Product's final     *)
(* dtype: the running scalar does not wrap around in a narrower            *)
(* intermediate type.                                                      *)
(***************************************************************************)
\* the value v is an element of the type dt
Representable(v, dt) ==
    IF IsIntType(dt) THEN v[2] = 0 /\ WrapBits(v[1], IntBits(dt)) = v[1]
    ELSE IsComplexType(dt) \/ v[2] = 0

C17_NoScalarWrap ==
    Holds =>
        LET exact == ExactProduct(ScalarsOf(written))
        IN  Representable(exact, P.dtype) => P._scalar.val = exact

=============================================================================
